---- MODULE Spec2Model ----
(***************************************************************************)
(* Model of hytek_parser/cli.py: the reshaping of a parsed HY3 tree        *)
(* (_post_process) with its helpers _drop_none and _sorted_events.         *)
(*                                                                         *)
(* Python values are tagged records.  A dict is its sequence of            *)
(* <<key, value>> items in insertion order, the keys being strings.  A str *)
(* VALUE is the sequence of its code points, so that int(), str.isdigit()  *)
(* and string comparison are computed character by character.              *)
(***************************************************************************)
EXTENDS Integers, Sequences, FiniteSets, TLC

VARIABLES parsed, pc, file_section, meet, todo, teams_list, swimmers_list,
          events_list, out

vars == <<parsed, pc, file_section, meet, todo, teams_list, swimmers_list,
          events_list, out>>

----------------------------------------------------------------------------
(* Python values *)

None == [t |-> "none"]
PyInt(n) == [t |-> "int", n |-> n]
PyBool(b) == [t |-> "bool", b |-> b]
PyStr(cs) == [t |-> "str", cs |-> cs]
PyList(xs) == [t |-> "list", xs |-> xs]
PyDict(kv) == [t |-> "dict", kv |-> kv]

EmptyDict == PyDict(<<>>)
EmptyList == PyList(<<>>)

\* bool(v): the truth value of a Python object
Truthy(v) ==
  CASE v.t = "none" -> FALSE
    [] v.t = "int"  -> v.n # 0
    [] v.t = "bool" -> v.b
    [] v.t = "str"  -> Len(v.cs) > 0
    [] v.t = "list" -> Len(v.xs) > 0
    [] v.t = "dict" -> Len(v.kv) > 0

\* a or b
Or(a, b) == IF Truthy(a) THEN a ELSE b

\* k in d
Has(d, k) == \E i \in 1..Len(d.kv) : d.kv[i][1] = k

\* d.get(k, dflt)
Get(d, k, dflt) ==
  IF Has(d, k) THEN d.kv[CHOOSE i \in 1..Len(d.kv) : d.kv[i][1] = k][2]
  ELSE dflt

\* d[k] = v : an existing key keeps its position, a new key is appended
DictSet(d, k, v) ==
  IF Has(d, k)
  THEN PyDict([i \in 1..Len(d.kv) |->
                 IF d.kv[i][1] = k THEN <<k, v>> ELSE d.kv[i]])
  ELSE PyDict(Append(d.kv, <<k, v>>))

\* d.pop(k, None), the popped value being discarded
DictPop(d, k) == PyDict(SelectSeq(d.kv, LAMBDA p : p[1] # k))

----------------------------------------------------------------------------
(* Strings.  The code points of every key the inputs use. *)

Chars(s) ==
  CASE s = ""           -> <<>>
    [] s = "1"          -> <<49>>
    [] s = "2"          -> <<50>>
    [] s = "3"          -> <<51>>
    [] s = "7"          -> <<55>>
    [] s = "01"         -> <<48, 49>>
    [] s = "10"         -> <<49, 48>>
    [] s = "12"         -> <<49, 50>>
    [] s = "42"         -> <<52, 50>>
    [] s = "-1"         -> <<45, 49>>
    [] s = "2000000000" -> <<50, 48, 48, 48, 48, 48, 48, 48, 48, 48>>
    [] s = "TT"         -> <<84, 84>>
    [] s = "A7"         -> <<65, 55>>
    [] s = "ABC"        -> <<65, 66, 67>>
    [] s = "XYZ"        -> <<88, 89, 90>>
    [] s = "²"          -> <<178>>

\* str(key) as a value
KeyStr(k) == PyStr(Chars(k))

\* '0'..'9': the decimal digits among the code points in use
DecimalChars == 48..57
\* the code points str.isdigit() accepts: the decimals and the superscript
\* digits U+00B2, U+00B3, U+00B9 (Numeric_Type=Digit)
DigitChars == DecimalChars \cup {178, 179, 185}
SignChars == {43, 45}

\* s.isdigit(): non-empty and every character a digit
IsDigit(cs) == Len(cs) > 0 /\ \A i \in 1..Len(cs) : cs[i] \in DigitChars

RECURSIVE DecVal(_)
DecVal(cs) ==
  IF Len(cs) = 0 THEN 0
  ELSE 10 * DecVal(SubSeq(cs, 1, Len(cs) - 1)) + (cs[Len(cs)] - 48)

\* int(s) for a str s: an optional sign, then one or more decimal digits;
\* anything else is a ValueError.  (Surrounding whitespace and "_" grouping,
\* which int() also accepts, use code points no key of the inputs has.)
IntDigits(cs) == IF Len(cs) > 0 /\ cs[1] \in SignChars THEN Tail(cs) ELSE cs
IntOk(cs) ==
  /\ Len(IntDigits(cs)) > 0
  /\ \A i \in 1..Len(IntDigits(cs)) : IntDigits(cs)[i] \in DecimalChars
IntVal(cs) ==
  IF Len(cs) > 0 /\ cs[1] = 45 THEN 0 - DecVal(IntDigits(cs))
  ELSE DecVal(IntDigits(cs))

\* a < b for two str: code point by code point, a proper prefix being less
RECURSIVE StrLess(_, _)
StrLess(a, b) ==
  IF Len(b) = 0 THEN FALSE
  ELSE IF Len(a) = 0 THEN TRUE
  ELSE IF a[1] # b[1] THEN a[1] < b[1]
  ELSE StrLess(Tail(a), Tail(b))

----------------------------------------------------------------------------
(* _drop_none *)

\* the test with `if not v` in place of the two tests: every falsy value goes
DroppedFalsy(v) == ~Truthy(v)

\* the test of the loop body: the item is skipped
Dropped(v) == v = None \/ (v.t = "dict" /\ Len(v.kv) = 0)

DropNone(d) == PyDict(SelectSeq(d.kv, LAMBDA p : ~Dropped(p[2])))

----------------------------------------------------------------------------
(* _sorted_events *)

\* the fallback first component of _event_key
Sentinel == 1000000000

\* _event_key(kv): the tuple (int(key), key), or (10**9, key) on ValueError
EventKey(k) ==
  IF IntOk(Chars(k)) THEN <<IntVal(Chars(k)), Chars(k)>>
  ELSE <<Sentinel, Chars(k)>>

\* tuple comparison a < b
KeyLess(a, b) == a[1] < b[1] \/ (a[1] = b[1] /\ StrLess(a[2], b[2]))

\* sorted() is stable: an item goes after every item whose key is not greater
RECURSIVE InsertSorted(_, _)
InsertSorted(s, item) ==
  IF Len(s) = 0 THEN <<item>>
  ELSE IF KeyLess(EventKey(item[1]), EventKey(s[1][1]))
       THEN <<item>> \o s
       ELSE <<s[1]>> \o InsertSorted(Tail(s), item)

RECURSIVE SortItems(_)
SortItems(items) ==
  IF Len(items) = 0 THEN <<>>
  ELSE InsertSorted(SortItems(SubSeq(items, 1, Len(items) - 1)),
                    items[Len(items)])

SortedEvents(events) == SortItems(events.kv)

----------------------------------------------------------------------------
(* Container protocol: dict(x), x.items(), iteration *)

\* dict(v) raises TypeError or ValueError: only a dict, an empty list and
\* an empty str convert (a non-empty str yields 1-character items, a list
\* of the inputs holds int items)
DictCtorRaises(v) ==
  ~(v.t = "dict" \/ (v.t = "list" /\ Len(v.xs) = 0)
                 \/ (v.t = "str" /\ Len(v.cs) = 0))

DictCtorVal(v) == IF v.t = "dict" THEN v ELSE EmptyDict

\* `x_map = x` in place of `x_map = dict(x)`: the name is bound to the object
\* of the source tree itself
DictAlias(path, v) ==
  [shared |-> v.t = "dict", path |-> path, val |-> DictCtorVal(v)]

\* dict(v) is a NEW object: nothing written to it reaches the object at
\* `path` of the source tree that v was read from
DictCopy(path, v) == [shared |-> FALSE, path |-> path, val |-> DictCtorVal(v)]

\* the tree with the object at `path` replaced
RECURSIVE PutAt(_, _, _)
PutAt(tree, path, w) ==
  IF Len(path) = 0 THEN w
  ELSE DictSet(tree, path[1], PutAt(Get(tree, path[1], None), Tail(path), w))

\* the source tree after the writes made through ref
Written(tree, ref) == IF ref.shared THEN PutAt(tree, ref.path, ref.val) ELSE tree

\* v.items() raises AttributeError
ItemsRaises(v) == v.t # "dict"

\* `for x in v` raises TypeError
IterRaises(v) == v.t \notin {"list", "dict", "str"}

\* the elements `for x in v` yields: a list's items, a dict's keys, a str's
\* characters
Iter(v) ==
  CASE v.t = "list" -> v.xs
    [] v.t = "dict" -> [i \in 1..Len(v.kv) |-> KeyStr(v.kv[i][1])]
    [] v.t = "str"  -> [i \in 1..Len(v.cs) |-> PyStr(<<v.cs[i]>>)]

\* x.get raises AttributeError
GetRaises(x) == x.t # "dict"

----------------------------------------------------------------------------
(* _post_process: the body of the entries loop *)

Prefixes == {"prelim", "swimoff", "finals"}

SwimmersInEntry(entry) == Or(Get(entry, "swimmers", EmptyList), EmptyList)

\* the sequence without the later occurrences of a value
RECURSIVE Dedup(_)
Dedup(s) ==
  IF Len(s) = 0 THEN <<>>
  ELSE LET front == Dedup(SubSeq(s, 1, Len(s) - 1))
       IN  IF \E i \in 1..Len(front) : front[i] = s[Len(s)]
           THEN front
           ELSE Append(front, s[Len(s)])

\* the ids collected without repetition
SwimmerIdsUnique(entry) ==
  Dedup([i \in 1..Len(Iter(SwimmersInEntry(entry))) |->
           Get(Iter(SwimmersInEntry(entry))[i], "meet_id", None)])

SwimmerIds(entry) ==
  [i \in 1..Len(Iter(SwimmersInEntry(entry))) |->
     Get(Iter(SwimmersInEntry(entry))[i], "meet_id", None)]

Seed(entry) ==
  DropNone(PyDict(<<
    <<"time", Get(entry, "seed_time", None)>>,
    <<"course", Get(entry, "seed_course", None)>>,
    <<"converted_time", Get(entry, "converted_seed_time", None)>>,
    <<"converted_course", Get(entry, "converted_seed_time_course", None)>> >>))

\* the dq record built without _drop_none
DqUnpruned(entry, prefix) ==
  LET dq_info == Get(entry, prefix \o "_dq_info", None)
  IN  IF Truthy(dq_info)
      THEN PyDict(<<
             <<"code", Get(dq_info, "code", None)>>,
             <<"info", Get(dq_info, "info_str", None)>> >>)
      ELSE None

Dq(entry, prefix) ==
  LET dq_info == Get(entry, prefix \o "_dq_info", None)
  IN  IF Truthy(dq_info)
      THEN DropNone(PyDict(<<
             <<"code", Get(dq_info, "code", None)>>,
             <<"info", Get(dq_info, "info_str", None)>> >>))
      ELSE None

BuildLeg(entry, prefix) ==
  LET leg == DropNone(PyDict(<<
        <<"time", Get(entry, prefix \o "_time", None)>>,
        <<"course", Get(entry, prefix \o "_course", None)>>,
        <<"time_code", Get(entry, prefix \o "_time_code", None)>>,
        <<"dq", Dq(entry, prefix)>>,
        <<"heat", Get(entry, prefix \o "_heat", None)>>,
        <<"lane", Get(entry, prefix \o "_lane", None)>>,
        <<"heat_place", Get(entry, prefix \o "_heat_place", None)>>,
        <<"overall_place", Get(entry, prefix \o "_overall_place", None)>>,
        <<"date", Get(entry, prefix \o "_date", None)>>,
        <<"splits", Get(entry, prefix \o "_splits", None)>> >>))
  IN  Or(leg, None)

ReshapeEntry(entry) ==
  DropNone(PyDict(<<
    <<"swimmers", PyList(SwimmerIds(entry))>>,
    <<"relay", PyBool(Truthy(Get(entry, "relay", PyBool(FALSE))))>>,
    <<"seed", Or(Seed(entry), None)>>,
    <<"prelim", BuildLeg(entry, "prelim")>>,
    <<"swimoff", BuildLeg(entry, "swimoff")>>,
    <<"finals", BuildLeg(entry, "finals")>>,
    <<"event_number", Get(entry, "event_number", None)>> >>))

\* an exception leaves the body of the entries loop
EntryRaises(entry) ==
  \/ GetRaises(entry)
  \/ /\ ~GetRaises(entry)
     /\ \/ IterRaises(SwimmersInEntry(entry))
        \/ /\ ~IterRaises(SwimmersInEntry(entry))
           /\ \E i \in 1..Len(Iter(SwimmersInEntry(entry))) :
                GetRaises(Iter(SwimmersInEntry(entry))[i])
        \/ \E prefix \in Prefixes :
             /\ Truthy(Get(entry, prefix \o "_dq_info", None))
             /\ GetRaises(Get(entry, prefix \o "_dq_info", None))

----------------------------------------------------------------------------
(* _post_process: the body of the events loop *)

Entries(e_map) == Or(Get(e_map, "entries", EmptyList), EmptyList)

ReshapedEntries(e_map) ==
  [i \in 1..Len(Iter(Entries(e_map))) |-> ReshapeEntry(Iter(Entries(e_map))[i])]

EntriesRaise(e_map) ==
  \/ IterRaises(Entries(e_map))
  \/ /\ ~IterRaises(Entries(e_map))
     /\ \E i \in 1..Len(Iter(Entries(e_map))) :
          EntryRaises(Iter(Entries(e_map))[i])

EventOut(e_map) ==
  DropNone(PyDict(<<
    <<"number", Get(e_map, "number", None)>>,
    <<"distance", Get(e_map, "distance", None)>>,
    <<"stroke", Get(e_map, "stroke", None)>>,
    <<"course", Get(e_map, "course", None)>>,
    <<"date", Get(e_map, "date_", None)>>,
    <<"fee", Get(e_map, "fee", None)>>,
    <<"gender", Get(e_map, "gender", None)>>,
    <<"gender_age", Get(e_map, "gender_age", None)>>,
    <<"age_min", Get(e_map, "age_min", None)>>,
    <<"age_max", Get(e_map, "age_max", None)>>,
    <<"open", Get(e_map, "open_", None)>>,
    <<"relay", PyBool(Truthy(Get(e_map, "relay", PyBool(FALSE))))>>,
    <<"relay_team_id", Get(e_map, "relay_team_id", None)>>,
    <<"relay_swim_team_code", Get(e_map, "relay_swim_team_code", None)>>,
    <<"entries", PyList(ReshapedEntries(e_map))>> >>))

----------------------------------------------------------------------------
(* _post_process: the file and meet records *)

FileSection(p) ==
  PyDict(<<
    <<"description", Get(p, "file_description", None)>>,
    <<"software", Get(p, "software", None)>>,
    <<"date_created", Get(p, "date_created", None)>>,
    <<"licensee", Get(p, "licensee", None)>> >>)

MeetOut(m, teams, swimmers, events) ==
  DropNone(PyDict(<<
    <<"name", Get(m, "name", None)>>,
    <<"facility", Get(m, "facility", None)>>,
    <<"start_date", Get(m, "start_date", None)>>,
    <<"end_date", Get(m, "end_date", None)>>,
    <<"altitude", Get(m, "altitude", None)>>,
    <<"country", Get(m, "country", None)>>,
    <<"masters", Get(m, "masters", None)>>,
    <<"type", Get(m, "type_", None)>>,
    <<"course", Get(m, "course", None)>>,
    <<"teams", PyList(teams)>>,
    <<"swimmers", PyList(swimmers)>>,
    <<"events", PyList(events)>> >>))

\* the meet_id of a SwimmerOutput: int(meet_id) if meet_id.isdigit()
MeetIdRaises(meet_id) == IsDigit(Chars(meet_id)) /\ ~IntOk(Chars(meet_id))

MeetId(meet_id) ==
  IF IsDigit(Chars(meet_id)) THEN PyInt(IntVal(Chars(meet_id)))
  ELSE KeyStr(meet_id)

----------------------------------------------------------------------------
(* _post_process as a state machine: one step per statement group and per *)
(* loop iteration; an exception ends the call in "raised" with no result. *)

\* file_section, and meet = dict(parsed.get("meet", {}))
Begin ==
  /\ pc = "start"
  /\ file_section' = FileSection(parsed)
  /\ IF DictCtorRaises(Get(parsed, "meet", EmptyDict))
     THEN /\ pc' = "raised"
          /\ meet' = meet
     ELSE /\ pc' = "teams"
          /\ meet' = DictCopy(<<"meet">>, Get(parsed, "meet", EmptyDict)).val
  /\ UNCHANGED <<parsed, todo, teams_list, swimmers_list, events_list, out>>

\* teams = meet.get("teams", {}) or {}; teams.items()
StartTeams ==
  /\ pc = "teams"
  /\ LET teams == Or(Get(meet, "teams", EmptyDict), EmptyDict)
     IN  IF ItemsRaises(teams)
         THEN /\ pc' = "raised"
              /\ todo' = todo
         ELSE /\ pc' = "team"
              /\ todo' = teams.kv
  /\ UNCHANGED <<parsed, file_section, meet, teams_list, swimmers_list,
                 events_list, out>>

\* one iteration of the teams loop
TeamStep ==
  /\ pc = "team"
  /\ Len(todo) > 0
  /\ LET code == todo[1][1]
         team == todo[1][2]
         team_map == DictCopy(<<"meet", "teams", code>>, team)
         written == [team_map EXCEPT !.val =
                       DictPop(DictSet(@, "code", KeyStr(code)), "swimmers")]
     IN  IF DictCtorRaises(team)
         THEN /\ pc' = "raised"
              /\ UNCHANGED <<parsed, todo, teams_list>>
         ELSE /\ pc' = pc
              /\ parsed' = Written(parsed, written)
              /\ teams_list' = Append(teams_list, written.val)
              /\ todo' = Tail(todo)
  /\ UNCHANGED <<file_section, meet, swimmers_list, events_list, out>>

\* swimmers = meet.get("swimmers", {}) or {}; swimmers.items()
StartSwimmers ==
  /\ pc = "team"
  /\ Len(todo) = 0
  /\ LET swimmers == Or(Get(meet, "swimmers", EmptyDict), EmptyDict)
     IN  IF ItemsRaises(swimmers)
         THEN /\ pc' = "raised"
              /\ todo' = todo
         ELSE /\ pc' = "swimmer"
              /\ todo' = swimmers.kv
  /\ UNCHANGED <<parsed, file_section, meet, teams_list, swimmers_list,
                 events_list, out>>

\* one iteration of the swimmers loop
SwimmerStep ==
  /\ pc = "swimmer"
  /\ Len(todo) > 0
  /\ LET meet_id == todo[1][1]
         swimmer == todo[1][2]
         swimmer_map == DictCopy(<<"meet", "swimmers", meet_id>>, swimmer)
         written == [swimmer_map EXCEPT !.val =
                       DictSet(@, "meet_id", MeetId(meet_id))]
     IN  IF DictCtorRaises(swimmer) \/ MeetIdRaises(meet_id)
         THEN /\ pc' = "raised"
              /\ UNCHANGED <<parsed, todo, swimmers_list>>
         ELSE /\ pc' = pc
              /\ parsed' = Written(parsed, written)
              /\ swimmers_list' = Append(swimmers_list, written.val)
              /\ todo' = Tail(todo)
  /\ UNCHANGED <<file_section, meet, teams_list, events_list, out>>

\* events = meet.get("events", {}) or {}; _sorted_events(events)
StartEvents ==
  /\ pc = "swimmer"
  /\ Len(todo) = 0
  /\ LET events == Or(Get(meet, "events", EmptyDict), EmptyDict)
     IN  IF ItemsRaises(events)
         THEN /\ pc' = "raised"
              /\ todo' = todo
         ELSE /\ pc' = "event"
              /\ todo' = SortedEvents(events)
  /\ UNCHANGED <<parsed, file_section, meet, teams_list, swimmers_list,
                 events_list, out>>

\* one iteration of the events loop, its entries loop included
EventStep ==
  /\ pc = "event"
  /\ Len(todo) > 0
  /\ LET event_number == todo[1][1]
         event == todo[1][2]
         e_map == DictCopy(<<"meet", "events", event_number>>, event)
         written == [e_map EXCEPT !.val =
                       DictSet(@, "number", KeyStr(event_number))]
     IN  IF DictCtorRaises(event) \/ EntriesRaise(written.val)
         THEN /\ pc' = "raised"
              /\ UNCHANGED <<parsed, todo, events_list>>
         ELSE /\ pc' = pc
              /\ parsed' = Written(parsed, written)
              /\ events_list' = Append(events_list, EventOut(written.val))
              /\ todo' = Tail(todo)
  /\ UNCHANGED <<file_section, meet, teams_list, swimmers_list, out>>

\* meet_out and the returned document
Finish ==
  /\ pc = "event"
  /\ Len(todo) = 0
  /\ pc' = "done"
  /\ out' = PyDict(<<
       <<"file", DropNone(file_section)>>,
       <<"meet", MeetOut(meet, teams_list, swimmers_list, events_list)>> >>)
  /\ UNCHANGED <<parsed, file_section, meet, todo, teams_list, swimmers_list,
                 events_list>>

Next ==
  \/ Begin
  \/ StartTeams
  \/ TeamStep
  \/ StartSwimmers
  \/ SwimmerStep
  \/ StartEvents
  \/ EventStep
  \/ Finish

----------------------------------------------------------------------------
(* Inputs: the parsed trees the call is checked on.  Each family varies one *)
(* part of the tree of the end-to-end example (one team, one swimmer, one   *)
(* event with one entry) and keeps the rest.                                *)

\* how many events a meet of the inputs has at most
MaxEvents == 3
\* how many swimmers a meet of the inputs has at most
MaxSwimmers == 2
\* how many entries an event of the inputs has at most
MaxEntries == 2
\* how many swimmer references an entry of the inputs has at most
MaxRefs == 2

\* "Jo"
Jo == PyStr(<<74, 111>>)

\* a field the record does not have
Missing == [t |-> "missing"]

\* the dict of the items whose value is not Missing
Fields(kv) == PyDict(SelectSeq(kv, LAMBDA p : p[2] # Missing))

\* all sequences without repetition of 1..n elements of S
Arrangements(S, n) ==
  {s \in UNION {[1..m -> S] : m \in 1..n} :
     \A i, j \in 1..Len(s) : i # j => s[i] # s[j]}

\* all sequences of lo..n elements of S
Seqs(S, lo, n) == UNION {[1..m -> S] : m \in lo..n}

BaseTeam == PyDict(<< <<"name", Jo>> >>)
BaseTeams == PyDict(<< <<"ABC", BaseTeam>> >>)
BaseSwimmer == PyDict(<< <<"first_name", Jo>> >>)
BaseSwimmers == PyDict(<< <<"7", BaseSwimmer>> >>)
Ref(id) == Fields(<< <<"meet_id", id>>, <<"first_name", Jo>> >>)
BaseRefs == PyList(<<Ref(PyInt(7))>>)
BaseEntry == PyDict(<< <<"swimmers", BaseRefs>>, <<"finals_time", Jo>> >>)
Event(entries) ==
  Fields(<< <<"distance", PyInt(50)>>, <<"entries", entries>> >>)
BaseEvent == Event(PyList(<<BaseEntry>>))
BaseEvents == PyDict(<< <<"1", BaseEvent>> >>)

Meet(teams, swimmers, events) ==
  Fields(<< <<"name", Jo>>, <<"teams", teams>>, <<"swimmers", swimmers>>,
            <<"events", events>> >>)
BaseMeet == Meet(BaseTeams, BaseSwimmers, BaseEvents)

Parsed(m) == Fields(<< <<"software", Jo>>, <<"meet", m>> >>)

\* event identifiers: numeric, signed, zero-padded, beyond 10**9, symbolic
EventKeys == {"1", "2", "3", "10", "01", "-1", "2000000000", "TT", "A7", ""}

\* meets whose events mapping has up to MaxEvents keys, in any insertion order
EventOrderInputs ==
  {Parsed(Meet(BaseTeams, BaseSwimmers,
               PyDict([i \in 1..Len(ks) |-> <<ks[i], BaseEvent>>]))) :
     ks \in Arrangements(EventKeys, MaxEvents)}

\* values of an optional field: absent, null, empty mapping, falsy scalars,
\* an empty list, a string, a mapping holding a null
LeafVals == {Missing, None, EmptyDict, PyInt(0), PyBool(FALSE), EmptyList, Jo,
             PyDict(<< <<"code", None>> >>)}
FewVals == {Missing, None, EmptyDict, Jo}

\* the four file fields, over a meet without teams, swimmers and events
FileInputs ==
  {Fields(<< <<"file_description", a>>, <<"software", b>>,
             <<"date_created", c>>, <<"licensee", d>>,
             <<"meet", PyDict(<< <<"name", Jo>> >>)>> >>) :
     a \in LeafVals, b \in LeafVals, c \in FewVals, d \in FewVals}

\* the nine scalar meet fields all absent or null
MeetFieldInputs ==
  {Parsed(Fields(<< <<"name", a>>, <<"type_", b>>, <<"masters", c>>,
                    <<"teams", t>>, <<"swimmers", t>>, <<"events", t>> >>)) :
     a \in FewVals, b \in FewVals, c \in {Missing, PyBool(FALSE)},
     t \in {Missing, None, EmptyDict}}

\* team records with null fields and with the swimmers back-reference
TeamVariants ==
  {Fields(<< <<"name", n>>, <<"swimmers", b>> >>) :
     n \in {Missing, None, Jo}, b \in {Missing, BaseSwimmers}}

TeamInputs ==
  {Parsed(Meet(PyDict(<< <<"ABC", t1>> >>), BaseSwimmers, BaseEvents)) :
     t1 \in TeamVariants}
  \cup
  {Parsed(Meet(PyDict(<< <<"XYZ", t1>>, <<"ABC", t2>> >>),
               BaseSwimmers, BaseEvents)) :
     t1 \in TeamVariants, t2 \in TeamVariants}

\* swimmer ids: decimal digits, zero-padded, symbolic, a superscript digit
SwimmerKeys == {"7", "42", "01", "A7", "²"}

SwimmerVariants ==
  {Fields(<< <<"meet_id", m>>, <<"first_name", n>> >>) :
     m \in {Missing, PyInt(99)}, n \in {None, Jo}}

SwimmerInputs ==
  {Parsed(Meet(BaseTeams, PyDict([i \in 1..Len(ks) |-> <<ks[i], sw>>]),
               BaseEvents)) :
     ks \in Arrangements(SwimmerKeys, MaxSwimmers), sw \in SwimmerVariants}

\* the meet_id of an embedded swimmer record: absent, an int, a key as str
IdVals == {Missing, PyInt(7), PyInt(12), KeyStr("7"), KeyStr("A7")}

\* one entry with up to MaxRefs references, over a meet of one swimmer
RefInputs ==
  {Parsed(Meet(BaseTeams, PyDict(<< <<k, BaseSwimmer>> >>),
       PyDict(<< <<"1", Event(PyList(<<
         PyDict(<< <<"swimmers", PyList([i \in 1..Len(ids) |-> Ref(ids[i])])>>
                >>) >>))>> >>))) :
     k \in {"7", "A7"}, ids \in Seqs(IdVals, 0, MaxRefs)}

\* entries told apart by their references and their relay flag
EntryVariants ==
  {Fields(<< <<"swimmers", r>>, <<"relay", f>>, <<"event_number", e>> >>) :
     r \in {Missing, None, BaseRefs,
            PyList(<<Ref(PyInt(7)), Ref(PyInt(12))>>)},
     f \in {Missing}, e \in {Missing, KeyStr("1")}}

\* events of up to MaxEntries entries, and events without an entries field
EntryInputs ==
  {Parsed(Meet(BaseTeams, BaseSwimmers,
               PyDict(<< <<"1", Event(PyList(es))>> >>))) :
     es \in Seqs(EntryVariants, 0, MaxEntries)}
  \cup
  {Parsed(Meet(BaseTeams, BaseSwimmers, PyDict(<< <<"1", Event(e)>> >>))) :
     e \in {Missing, None}}

\* values of the wrong shape for a mapping or a sequence, and the right ones
ShapeVals == {Missing, None, PyInt(0), PyInt(5), PyBool(FALSE), PyStr(<<>>), Jo,
              EmptyList, PyList(<<PyInt(1)>>),
              EmptyDict, PyDict(<< <<"A7", PyInt(1)>> >>)}

ShapeInputs ==
  {Fields(<< <<"software", Jo>>, <<"meet", v>> >>) : v \in ShapeVals}
  \cup {Parsed(Meet(v, BaseSwimmers, BaseEvents)) : v \in ShapeVals}
  \cup {Parsed(Meet(BaseTeams, v, BaseEvents)) : v \in ShapeVals}
  \cup {Parsed(Meet(BaseTeams, BaseSwimmers, v)) : v \in ShapeVals}
  \cup {Parsed(Meet(BaseTeams, BaseSwimmers,
                    PyDict(<< <<"1", Event(v)>> >>))) : v \in ShapeVals}
  \cup {Parsed(Meet(BaseTeams, BaseSwimmers,
          PyDict(<< <<"1", Event(PyList(<<
            Fields(<< <<"swimmers", v>>, <<"finals_time", Jo>> >>) >>))>> >>))) :
          v \in ShapeVals}

\* the disqualification record of a phase
DqVals == {Missing, None, EmptyDict,
           PyDict(<< <<"code", None>>, <<"info_str", None>> >>),
           PyDict(<< <<"code", Jo>>, <<"info_str", None>> >>),
           PyDict(<< <<"info_str", Jo>> >>)}

\* the items of one phase of an entry
LegItems(prefix, time, heat, dq, splits) ==
  << <<prefix \o "_time", time>>, <<prefix \o "_heat", heat>>,
     <<prefix \o "_dq_info", dq>>, <<prefix \o "_splits", splits>> >>

LegVariants(prefix) ==
  {LegItems(prefix, time, heat, dq, Missing) :
     time \in {Missing, None, Jo}, heat \in {Missing, PyInt(0)}, dq \in DqVals}

SeedVariants ==
  {<< <<"seed_time", a>>, <<"seed_course", b>>,
      <<"converted_seed_time", c>> >> :
     a \in FewVals, b \in {Missing, None, Jo}, c \in {Missing, PyInt(0)}}

EntryOf(items) ==
  Parsed(Meet(BaseTeams, BaseSwimmers,
    PyDict(<< <<"1", Event(PyList(<<
      Fields(<< <<"swimmers", BaseRefs>> >> \o items) >>))>> >>)))

\* one entry: two phases varied together, the third with its splits, the seed
LegInputs ==
  {EntryOf(p \o f) : p \in LegVariants("prelim"), f \in LegVariants("finals")}
  \cup
  {EntryOf(LegItems("swimoff", time, Missing, dq, splits)) :
     time \in {Missing, Jo}, dq \in DqVals,
     splits \in {Missing, None, EmptyDict, EmptyList}}
  \cup
  {EntryOf(s \o LegItems("finals", time, Missing, Missing, Missing)) :
     s \in SeedVariants, time \in {Missing, Jo}}

\* one entry with a single field of one block, null, empty or set
SingleFieldInputs ==
  {EntryOf(<< <<prefix \o "_" \o f, v>> >>) :
     prefix \in {"prelim", "swimoff", "finals"},
     f \in {"time", "course", "time_code", "heat", "lane", "heat_place",
            "overall_place", "date", "splits"},
     v \in {None, EmptyDict, Jo}}
  \cup
  {EntryOf(<< <<f, v>> >>) :
     f \in {"seed_time", "seed_course", "converted_seed_time",
            "converted_seed_time_course"},
     v \in {None, EmptyDict, Jo}}

Inputs ==
  SingleFieldInputs \cup EventOrderInputs \cup FileInputs \cup MeetFieldInputs \cup TeamInputs
  \cup SwimmerInputs \cup RefInputs \cup EntryInputs \cup ShapeInputs
  \cup LegInputs

Init ==
  /\ parsed \in Inputs
  /\ pc = "start"
  /\ file_section = None
  /\ meet = None
  /\ todo = <<>>
  /\ teams_list = <<>>
  /\ swimmers_list = <<>>
  /\ events_list = <<>>
  /\ out = None

Spec == Init /\ [][Next]_vars

----------------------------------------------------------------------------
(* Reading the source tree and the returned document *)

MapItems(v) == IF v.t = "dict" THEN v.kv ELSE <<>>
ListItems(v) == IF v.t = "list" THEN v.xs ELSE <<>>
Range(s) == {s[i] : i \in 1..Len(s)}

\* the field of a record, None when there is no such record or field
Field(d, k) == IF d.t = "dict" THEN Get(d, k, None) ELSE None

SrcMeet == Get(parsed, "meet", EmptyDict)
SrcTeams == MapItems(Field(SrcMeet, "teams"))
SrcSwimmers == MapItems(Field(SrcMeet, "swimmers"))
SrcEvents == MapItems(Field(SrcMeet, "events"))
SrcEntries(event) == ListItems(Field(event, "entries"))
SrcRefs(entry) == ListItems(Field(entry, "swimmers"))

OutFile == Get(out, "file", None)
OutMeet == Get(out, "meet", None)
OutTeams == Get(OutMeet, "teams", EmptyList).xs
OutSwimmers == Get(OutMeet, "swimmers", EmptyList).xs
OutEvents == Get(OutMeet, "events", EmptyList).xs
OutEntries(e) == Get(e, "entries", EmptyList).xs
OutEntrySet == UNION {Range(OutEntries(e)) : e \in Range(OutEvents)}
Blocks == {"seed"} \cup Prefixes

\* absent, null, or of the given type
Optional(d, k, type) == Get(d, k, None).t \in {"none", type}

\* the input has the documented shape: mappings and sequences where the
\* reshaping reads them, optional parts absent or null
WellFormed ==
  /\ SrcMeet.t = "dict"
  /\ \A k \in {"teams", "swimmers", "events"} :
       /\ Optional(SrcMeet, k, "dict")
       /\ \A p \in Range(MapItems(Get(SrcMeet, k, None))) : p[2].t = "dict"
  /\ \A p \in Range(SrcEvents) :
       /\ Optional(p[2], "entries", "list")
       /\ \A entry \in Range(SrcEntries(p[2])) :
            /\ entry.t = "dict"
            /\ Optional(entry, "swimmers", "list")
            /\ \A s \in Range(SrcRefs(entry)) : s.t = "dict"
            /\ \A prefix \in Prefixes :
                 Optional(entry, prefix \o "_dq_info", "dict")

\* a value is wrong where a mapping (a sequence) is required
Malformed ==
  \/ Has(parsed, "meet") /\ SrcMeet.t \notin {"none", "dict"}
  \/ /\ SrcMeet.t = "dict"
     /\ \/ \E k \in {"teams", "swimmers", "events"} :
             ~Optional(SrcMeet, k, "dict")
        \/ \E p \in Range(SrcEvents) :
             /\ p[2].t = "dict"
             /\ \/ ~Optional(p[2], "entries", "list")
                \/ \E entry \in Range(SrcEntries(p[2])) :
                     entry.t = "dict" /\ ~Optional(entry, "swimmers", "list")

\* neither null nor an empty mapping
NonNull(v) == v.t # "none" /\ ~(v.t = "dict" /\ Len(v.kv) = 0)

----------------------------------------------------------------------------
(* Claims *)

\* C1: in the returned events list every identifier that parses as an
\* integer comes before every identifier that does not, and the parseable
\* ones are in ascending numeric order, whatever their magnitude or sign.
C1_NumericIdentifiersFirst ==
  pc = "done" =>
    \A i, j \in 1..Len(OutEvents) :
      i < j =>
        LET a == Get(OutEvents[i], "number", None).cs
            b == Get(OutEvents[j], "number", None).cs
        IN  /\ IntOk(b) => IntOk(a)
            /\ IntOk(a) /\ IntOk(b) => IntVal(a) <= IntVal(b)

\* C2: in the returned document none of the values under "file", "meet",
\* an entry, "seed", "prelim", "swimoff", "finals" or "dq" is the empty
\* mapping.
C2_NoEmptyRecord ==
  pc = "done" =>
    /\ OutFile # EmptyDict
    /\ OutMeet # EmptyDict
    /\ \A x \in OutEntrySet :
         /\ x # EmptyDict
         /\ \A b \in Blocks :
              /\ Get(x, b, None) # EmptyDict
              /\ Get(Get(x, b, EmptyDict), "dq", None) # EmptyDict

\* no field of the record is null or an empty mapping
Pruned(rec) == \A p \in Range(rec.kv) : NonNull(p[2])

\* C3: in the returned document no record at any level (file, meet, team,
\* swimmer, event, entry, seed, leg, dq) has a field that is null or an
\* empty mapping.
C3_OutputNullPruned ==
  pc = "done" =>
    /\ Pruned(OutFile)
    /\ Pruned(OutMeet)
    /\ \A t \in Range(OutTeams) : Pruned(t)
    /\ \A s \in Range(OutSwimmers) : Pruned(s)
    /\ \A e \in Range(OutEvents) : Pruned(e)
    /\ \A x \in OutEntrySet :
         /\ Pruned(x)
         /\ \A b \in Blocks :
              Has(x, b) =>
                /\ Pruned(Get(x, b, None))
                /\ Has(Get(x, b, None), "dq") =>
                     Pruned(Get(Get(x, b, None), "dq", None))

\* every embedded swimmer record of the input has a meet_id equal to a key
\* of the meet-level swimmers mapping
RefsAreKeys ==
  \A p \in Range(SrcEvents) : \A entry \in Range(SrcEntries(p[2])) :
    \A s \in Range(SrcRefs(entry)) :
      \E q \in Range(SrcSwimmers) : Get(s, "meet_id", None) = KeyStr(q[1])

\* C4: when every embedded meet_id equals a key of the swimmers mapping,
\* every id in the "swimmers" list of an output entry equals, value and
\* type, the "meet_id" of some record of meet.swimmers.
C4_EntryIdsReferToSwimmers ==
  (pc = "done" /\ WellFormed /\ RefsAreKeys) =>
    \A x \in OutEntrySet : \A id \in Range(Get(x, "swimmers", EmptyList).xs) :
      \E s \in Range(OutSwimmers) : Get(s, "meet_id", None) = id

\* the meet_id the spec gives a key: its integer value for a string of
\* decimal digits, the raw key otherwise
AllDecimal(cs) == Len(cs) > 0 /\ \A i \in 1..Len(cs) : cs[i] \in DecimalChars
CoercedId(k) == IF AllDecimal(Chars(k)) THEN PyInt(DecVal(Chars(k))) ELSE KeyStr(k)

\* C5: the swimmers loop never fails on a key, and emits for every
\* (key, swimmer) pair exactly one record, whose meet_id is the integer for
\* a key of decimal digits and the raw key otherwise.
C5_SwimmerIdCoercionTotal ==
  WellFormed =>
    /\ pc # "raised"
    /\ pc \in {"event", "done"} =>
         /\ Len(swimmers_list) = Len(SrcSwimmers)
         /\ \A i \in 1..Len(SrcSwimmers) :
              Get(swimmers_list[i], "meet_id", None) = CoercedId(SrcSwimmers[i][1])

\* C6: every output event has as many entries as its source event, in the
\* source order, and each entry's "swimmers" is the sequence of the meet_id
\* values of the source entry's embedded swimmer records (same length,
\* order and multiplicity).
C6_EntrySwimmersAreMeetIds ==
  (pc = "done" /\ WellFormed) =>
    \A p \in Range(SrcEvents) :
      \E e \in Range(OutEvents) :
        /\ Get(e, "number", None) = KeyStr(p[1])
        /\ Len(OutEntries(e)) = Len(SrcEntries(p[2]))
        /\ \A j \in 1..Len(SrcEntries(p[2])) :
             LET src == SrcEntries(p[2])[j]
                 x == OutEntries(e)[j]
             IN  /\ Get(x, "swimmers", None) =
                      PyList([r \in 1..Len(SrcRefs(src)) |->
                                Get(SrcRefs(src)[r], "meet_id", None)])
                 /\ Get(x, "event_number", None) = Get(src, "event_number", None)

\* a relay entry with two different references, followed by another entry
C6_Witness ==
  /\ pc = "done"
  /\ \E e \in Range(OutEvents) :
       /\ Len(OutEntries(e)) = 2
       /\ Get(OutEntries(e)[1], "swimmers", None) = PyList(<<PyInt(7), PyInt(12)>>)
       /\ Get(OutEntries(e)[2], "swimmers", None) = PyList(<<PyInt(7)>>)

\* C7: a call whose input has a non-mapping where a mapping is required, or
\* a non-sequence where a sequence is required, never returns a document.
C7_MalformedInputFails == Malformed => (pc # "done" /\ out = None)

\* C8: no step of the call changes the parsed tree passed in.
C8_InputNotMutated == [][parsed' = parsed]_vars

\* a team with a swimmers back-reference was reshaped: the output record has
\* "code" and no "swimmers", the source record still has "swimmers"
C8_Witness ==
  /\ pc = "done"
  /\ WellFormed
  /\ \E p \in Range(SrcTeams) : Has(p[2], "swimmers") /\ ~Has(p[2], "code")
  /\ Len(OutTeams) > 0
  /\ \A t \in Range(OutTeams) : Has(t, "code") /\ ~Has(t, "swimmers")
  /\ \A s \in Range(OutSwimmers) : Has(s, "meet_id")

SeedFields == {"seed_time", "seed_course", "converted_seed_time",
               "converted_seed_time_course"}
LegFields == {"time", "course", "time_code", "heat", "lane", "heat_place",
              "overall_place", "date", "splits"}

\* a field of the block survives pruning, the dq record counted after the
\* pruning of its code and info_str
Survives(entry, b) ==
  IF b = "seed"
  THEN \E f \in SeedFields : NonNull(Get(entry, f, None))
  ELSE \/ \E f \in LegFields : NonNull(Get(entry, b \o "_" \o f, None))
       \/ LET dq_info == Get(entry, b \o "_dq_info", None)
          IN  /\ dq_info.t = "dict"
              /\ \/ NonNull(Get(dq_info, "code", None))
                 \/ NonNull(Get(dq_info, "info_str", None))

\* the entry without the fields of the phases other than prefix
OnlyPhase(entry, prefix) ==
  PyDict(SelectSeq(entry.kv, LAMBDA p :
    p[1] \notin {q \o "_" \o f : q \in Prefixes \ {prefix},
                                 f \in LegFields \cup {"dq_info"}}))

\* C9: the key of a block (seed, prelim, swimoff, finals) is in the output
\* entry exactly when a source field of the block survives pruning, its
\* value is never the empty mapping, and the record of a phase is the one
\* built from the entry without the fields of the other phases.
C9_BlockPresentIffFieldSurvives ==
  (pc = "done" /\ WellFormed) =>
    \A p \in Range(SrcEvents) : \A e \in Range(OutEvents) :
      Get(e, "number", None) = KeyStr(p[1]) =>
        \A j \in 1..Len(SrcEntries(p[2])) :
          LET src == SrcEntries(p[2])[j]
              x == OutEntries(e)[j]
          IN  /\ \A b \in Blocks :
                   /\ Has(x, b) <=> Survives(src, b)
                   /\ Has(x, b) => Get(x, b, None) # EmptyDict
              /\ \A prefix \in Prefixes :
                   Get(x, prefix, None) = BuildLeg(OnlyPhase(src, prefix), prefix)

\* an entry whose prelim fields are only a dq record that prunes to nothing,
\* next to a finals block that is present
C9_Witness ==
  /\ pc = "done"
  /\ WellFormed
  /\ \E p \in Range(SrcEvents) : \E src \in Range(SrcEntries(p[2])) :
       /\ Truthy(Get(src, "prelim_dq_info", None))
       /\ ~Survives(src, "prelim")
       /\ Survives(src, "finals")
  /\ \E x \in OutEntrySet : ~Has(x, "prelim") /\ Has(x, "finals")

\* C10: _drop_none is idempotent and keeps exactly the fields whose value is
\* neither null nor an empty mapping, values unchanged: falsy values other
\* than these stay, nested records are not pruned.  Stated of the file
\* record, which the call prunes into the "file" of the document.
C10_DropNoneIdempotentExact ==
  pc # "start" =>
    LET r == file_section
        d == DropNone(r)
    IN  /\ DropNone(d) = d
        /\ \A p \in Range(r.kv) : Has(d, p[1]) <=> NonNull(p[2])
        /\ \A q \in Range(d.kv) : Has(r, q[1]) /\ Get(r, q[1], None) = q[2]
        /\ pc = "done" => OutFile = d

\* a file record with a null, an empty mapping, a 0 and a mapping holding a
\* null: the last two are in the pruned record
C10_Witness ==
  /\ pc = "done"
  /\ \E a, b, c, d \in Range(file_section.kv) :
       /\ a[2] = None
       /\ b[2] = EmptyDict
       /\ c[2] = PyInt(0)
       /\ d[2] = PyDict(<< <<"code", None>> >>)
       /\ Get(OutFile, c[1], None) = PyInt(0)
       /\ Get(OutFile, d[1], None) = d[2]
       /\ ~Has(OutFile, a[1])
       /\ ~Has(OutFile, b[1])

====
